---- MODULE Spec2Model ----
(***************************************************************************)
(* Model of the PHY6000 demonstration scripts:                             *)
(*   - Calculate_KT.main            (clearness index, hourly)              *)
(*   - POA_analysis.load_testbed_data / simulate_eai / main                *)
(*   - interpolate_wl_spectrum      (spectral interpolation)               *)
(*   - mean resampling with left labels, as both scripts apply it          *)
(* Floating-point values are modelled as exact rationals extended with     *)
(* NaN, +inf and -inf, with the IEEE-754 rules numpy/pandas apply to       *)
(* division and comparison.                                                *)
(***************************************************************************)
EXTENDS Integers, Sequences, FiniteSets, TLC

\* ------------------------------------------------------------------ bounds
\* Calculate_KT: the minutely grid runs from minute 0 to minute NumMinutes,
\* both ends included (pd.date_range includes `end`).
NumMinutes == 3
\* Calculate_KT: minutes per aggregation bin (60 in the script, "1h").
MinutesPerBin == 2
\* POA_analysis: the testbed file's timestamps lie in 0..MaxStamp half-minutes.
MaxStamp == 2
\* POA_analysis: half-minutes per daily aggregation bin ("d").
StampsPerDay == 2
\* interpolate_wl_spectrum: wavelengths range over 0..MaxWl.
MaxWl == 6
\* Resampling: the series has timestamps in 0..SeriesLen-1.
SeriesLen == 5
\* Resampling: samples per intermediate bin.
FineBin == 2
\* Resampling: intermediate bins per final bin.
Factor == 2

\* ------------------------------------------------------------ float values
Abs(i) == IF i < 0 THEN -i ELSE i

RECURSIVE GCD(_, _)
GCD(a, b) == IF b = 0 THEN a ELSE GCD(b, a % b)

NaN == [k |-> "nan", n |-> 0, d |-> 1]
PInf == [k |-> "inf", n |-> 1, d |-> 1]
NInf == [k |-> "inf", n |-> -1, d |-> 1]

\* The rational n/d (d > 0) in lowest terms.
Num(n, d) ==
    LET g == GCD(Abs(n), d)
    IN  [k |-> "num", n |-> n \div g, d |-> d \div g]

Int2F(i) == Num(i, 1)
Zero == Int2F(0)

IsNaN(a) == a.k = "nan"
IsInf(a) == a.k = "inf"
IsNum(a) == a.k = "num"

Sign(a) == IF a.n < 0 THEN -1 ELSE 1

\* IEEE-754 division as numpy performs it elementwise (no exception raised:
\* x/0 is +-inf, 0/0 is NaN, NaN propagates).  Zero divisors are +0.0.
FDiv(a, b) ==
    IF IsNaN(a) \/ IsNaN(b) THEN NaN
    ELSE IF IsInf(b) THEN (IF IsInf(a) THEN NaN ELSE Zero)
    ELSE IF IsInf(a) THEN (IF Sign(a) * Sign(b) > 0 THEN PInf ELSE NInf)
    ELSE IF b.n = 0 THEN (IF a.n = 0 THEN NaN ELSE IF a.n > 0 THEN PInf ELSE NInf)
    ELSE IF b.n > 0 THEN Num(a.n * b.d, a.d * b.n)
    ELSE Num(-(a.n * b.d), -(a.d * b.n))

\* IEEE-754 multiplication.
FMul(a, b) ==
    IF IsNaN(a) \/ IsNaN(b) THEN NaN
    ELSE IF IsInf(a) \/ IsInf(b)
         THEN (IF a.n = 0 \/ b.n = 0 THEN NaN
               ELSE IF Sign(a) * Sign(b) > 0 THEN PInf ELSE NInf)
    ELSE Num(a.n * b.n, a.d * b.d)

\* IEEE-754 addition.
FAdd(a, b) ==
    IF IsNaN(a) \/ IsNaN(b) THEN NaN
    ELSE IF IsInf(a) /\ IsInf(b) THEN (IF a = b THEN a ELSE NaN)
    ELSE IF IsInf(a) THEN a
    ELSE IF IsInf(b) THEN b
    ELSE Num(a.n * b.d + b.n * a.d, a.d * b.d)

\* IEEE-754 ordered comparisons: every comparison with NaN is False.
FLt(a, b) ==
    IF IsNaN(a) \/ IsNaN(b) THEN FALSE
    ELSE IF a = b THEN FALSE
    ELSE IF a = NInf \/ b = PInf THEN TRUE
    ELSE IF a = PInf \/ b = NInf THEN FALSE
    ELSE a.n * b.d < b.n * a.d

FGt(a, b) == FLt(b, a)

FEq(a, b) == ~IsNaN(a) /\ ~IsNaN(b) /\ a = b

FGe(a, b) == FGt(a, b) \/ FEq(a, b)

\* --------------------------------------------------------- pandas series
\* A series is a function from its index (a set of integer timestamps) to
\* float values.
EmptySeries == [t \in {} |-> NaN]

\* Value at t after index alignment: a label absent from the series is NaN.
At(s, t) == IF t \in DOMAIN s THEN s[t] ELSE NaN

SetMin(S) == CHOOSE m \in S : \A o \in S : m <= o
SetMax(S) == CHOOSE m \in S : \A o \in S : m >= o

RECURSIVE FSum(_, _)
FSum(S, s) ==
    IF S = {} THEN Zero
    ELSE LET t == SetMin(S) IN FAdd(s[t], FSum(S \ {t}, s))

\* Mutant of Mean: missing samples are counted in the divisor.
MeanCountAll(S, s) ==
    LET valid == {t \in S : ~IsNaN(s[t])}
    IN  IF valid = {} THEN NaN
        ELSE FDiv(FSum(valid, s), Int2F(Cardinality(S)))

\* Series.mean() of the samples with labels in S: NaN samples are skipped
\* (skipna), and the mean of no samples is NaN.
Mean(S, s) ==
    LET valid == {t \in S : ~IsNaN(s[t])}
    IN  IF valid = {} THEN NaN
        ELSE FDiv(FSum(valid, s), Int2F(Cardinality(valid)))

\* s.resample(<w>, label="left").mean(): bins [b*w, (b+1)*w) anchored at
\* time 0, every bin from the first to the last sample present in the
\* result, labelled by its left edge.
Resample(s, w) ==
    IF DOMAIN s = {} THEN EmptySeries
    ELSE LET lo == SetMin(DOMAIN s) \div w
             hi == SetMax(DOMAIN s) \div w
         IN  [l \in {b * w : b \in lo..hi} |->
                 Mean({t \in DOMAIN s : t \div w = l \div w}, s)]

\* Mutant of SeriesDiv: labels absent from one side are filled with 0.
SeriesDivFillZero(a, b) ==
    [t \in (DOMAIN a) \cup (DOMAIN b) |->
        FDiv(IF t \in DOMAIN a THEN a[t] ELSE Zero,
             IF t \in DOMAIN b THEN b[t] ELSE Zero)]

\* a / b for two series: the indexes are aligned on their union first.
SeriesDiv(a, b) ==
    [t \in (DOMAIN a) \cup (DOMAIN b) |-> FDiv(At(a, t), At(b, t))]

\* s[mask] = value, with the boolean mask given as the set of True labels.
MaskAssign(s, mask, value) ==
    [t \in DOMAIN s |-> IF t \in mask THEN value ELSE s[t]]

\* ------------------------------------------------------- solar geometry
\* np.cos(np.radians(z)) at the zenith angles (degrees) the model draws,
\* as rationals: cos 0 = 1, cos 60 = 1/2, cos 89.6 ~ 7/1000, cos 120 = -1/2.
CosDeg(z) ==
    IF z = Int2F(0) THEN Int2F(1)
    ELSE IF z = Int2F(60) THEN Num(1, 2)
    ELSE IF z = Num(448, 5) THEN Num(7, 1000)
    ELSE Num(-1, 2)

\* pvlib.irradiance.get_extra_radiation: W/m^2 on a plane normal to the sun
\* (1320..1415 over the year; the model's period lies within one day).
ExtraRadiation == 1360

VARIABLES
    \* Calculate_KT.main
    pcK,        \* position in main
    global_h,   \* df.global_h, indexed by hourly timestamp (minutes)
    zenK,       \* solpos["apparent_zenith"], minutely
    etr_hor,    \* horizontal extraterrestrial reference, minutely
    etr_h_hor,  \* its hourly mean
    kt,         \* clearness index
    \* POA_analysis.load_testbed_data / simulate_eai / main
    pcP,        \* position in main and the functions it calls
    file,       \* the CSV file on disk: [kind, rows <<stamp, GHI>> in file order]
    fid,        \* the file handle of load_testbed_data
    irr,        \* irr: rows <<timestamp (half-minutes), ghi>> in file order
    zenP,       \* solpos["apparent_zenith"]
    eai_global, \* eai["eai_global"]
    eai,        \* eai["eai"]
    irr_,       \* the merged frame: [ghi, eai], columns on the common index
    ktP,        \* kt of POA_analysis.main
    kt_d,       \* its daily mean
    \* interpolate_wl_spectrum
    pcS,            \* position in interpolate_wl_spectrum
    start_wl,       \* arguments
    end_wl,
    step_wl,
    input_spectrum, \* rows <<wavelength, power>>, wavelength increasing
    x,              \* wavelength column as a 1-D array
    y,              \* power column as a 1-D array
    int_x,          \* the new wavelength axis
    f,              \* the fitted interpolant
    int_y,          \* the interpolated powers
    df,             \* the returned frame, rows <<int_x[i], int_y[i]>>
    \* mean resampling applied once and twice
    pcR,        \* position
    series,     \* the input series
    coarse,     \* series resampled to the intermediate cadence
    twice,      \* coarse resampled to the final cadence
    direct      \* series resampled directly to the final cadence

kvars == <<pcK, global_h, zenK, etr_hor, etr_h_hor, kt>>
pvars == <<pcP, file, fid, irr, zenP, eai_global, eai, irr_, ktP, kt_d>>

svars == <<pcS, start_wl, end_wl, step_wl, input_spectrum, x, y, int_x, f, int_y, df>>
rvars == <<pcR, series, coarse, twice, direct>>

vars == <<kvars, pvars, svars, rvars>>

notK == <<pvars, svars, rvars>>
notP == <<kvars, svars, rvars>>
notS == <<kvars, pvars, rvars>>
notR == <<kvars, pvars, svars>>

\* ======================================================= Calculate_KT.main
\* times = pd.date_range(start, end, freq="min"): both ends included.
Times == 0..NumMinutes

\* Labels of the hourly bins of Times.
HourLabels == {b * MinutesPerBin : b \in 0..(NumMinutes \div MinutesPerBin)}

\* Hourly timestamps the measurement file may hold: the modelled period and
\* one hour after its end.
DfTimes == HourLabels \cup {(NumMinutes \div MinutesPerBin + 1) * MinutesPerBin}

\* Global horizontal irradiance cells of the file as pd.read_csv parses
\* them, kW/m^2: a missing cell, a negative night-time offset, zero,
\* 1.768 kW/m^2, and the cells "inf" and "-inf".
GlobalVals == {NaN, Num(-1, 100), Zero, Num(221, 125), PInf, NInf}

\* Apparent zenith angles drawn for Calculate_KT (degrees).
ZenValsK == {Int2F(0), Int2F(60), Int2F(120)}

\* Lines 27-28: df is loaded and localized before anything is computed.
InitKT ==
    /\ pcK = "solpos"
    /\ \E idx \in SUBSET DfTimes : global_h \in [idx -> GlobalVals]
    /\ zenK = EmptySeries
    /\ etr_hor = EmptySeries
    /\ etr_h_hor = EmptySeries
    /\ kt = EmptySeries

\* Line 40: etr_hor = np.cos(np.radians(zen)) * etr
Project(zen) == [t \in DOMAIN zen |-> FMul(CosDeg(zen[t]), Int2F(ExtraRadiation))]

\* Lines 32-40: solar position and projection onto the horizontal plane.
KProject ==
    /\ pcK = "solpos"
    /\ \E z \in [Times -> ZenValsK] :
          /\ zenK' = z
          /\ etr_hor' = Project(z)
    /\ pcK' = "clamp"
    /\ UNCHANGED <<global_h, etr_h_hor, kt, notK>>

\* Mutant of ClampNegative: the comparison is reversed.
ClampPositive(s) == MaskAssign(s, {t \in DOMAIN s : FGt(s[t], Zero)}, Zero)

\* Line 42 (and POA_analysis line 44): s[s < 0] = 0
ClampNegative(s) == MaskAssign(s, {t \in DOMAIN s : FLt(s[t], Zero)}, Zero)

KClamp ==
    /\ pcK = "clamp"
    /\ etr_hor' = ClampNegative(etr_hor)
    /\ pcK' = "resample"
    /\ UNCHANGED <<global_h, zenK, etr_h_hor, kt, notK>>

\* Line 44: etr_h_hor = etr_hor.resample("1h", label="left").mean()
KResample ==
    /\ pcK = "resample"
    /\ etr_h_hor' = Resample(etr_hor, MinutesPerBin)
    /\ pcK' = "scale"
    /\ UNCHANGED <<global_h, zenK, etr_hor, kt, notK>>

\* Line 48: df.global_h = df.global_h * 1000   (kW/m^2 -> W/m^2)
ScaleUnits(s) == [t \in DOMAIN s |-> FMul(s[t], Int2F(1000))]

KScale ==
    /\ pcK = "scale"
    /\ global_h' = ScaleUnits(global_h)
    /\ pcK' = "divide"
    /\ UNCHANGED <<zenK, etr_hor, etr_h_hor, kt, notK>>

\* Line 51: kt = df.global_h / etr_h_hor
KDivide ==
    /\ pcK = "divide"
    /\ kt' = SeriesDiv(global_h, etr_h_hor)
    /\ pcK' = "filter"
    /\ UNCHANGED <<global_h, zenK, etr_hor, etr_h_hor, notK>>

\* The plausibility ceiling of line 53.
KtCeiling == Num(13, 10)

\* Mutant of PlausibilityFilter: values above the ceiling are clipped to it.
PlausibilityFilterClip(s) ==
    MaskAssign(s, {t \in DOMAIN s : FGt(s[t], KtCeiling)}, KtCeiling)

\* Line 53: kt[kt > 1.3] = np.nan
PlausibilityFilter(s) ==
    MaskAssign(s, {t \in DOMAIN s : FGt(s[t], KtCeiling)}, NaN)

KFilter ==
    /\ pcK = "filter"
    /\ kt' = PlausibilityFilter(kt)
    /\ pcK' = "done"
    /\ UNCHANGED <<global_h, zenK, etr_hor, etr_h_hor, notK>>

IdleKT ==
    /\ pcK = "idle"
    /\ global_h = EmptySeries
    /\ zenK = EmptySeries
    /\ etr_hor = EmptySeries
    /\ etr_h_hor = EmptySeries
    /\ kt = EmptySeries

\* ============================================================ POA_analysis
\* Timestamps of the testbed file, in half-minutes: 0..MaxStamp.
Stamps == 0..MaxStamp

\* GHI cells of the file as pd.read_csv parses them, W/m^2: missing,
\* negative, zero, positive, and the cells "inf" and "-inf".
GhiVals == {NaN, Int2F(-3), Zero, Int2F(40), PInf, NInf}

\* The row orders of a file holding the stamps idx, each once: nothing in
\* load_testbed_data sorts the rows.
RowOrders(idx) ==
    {o \in [1..Cardinality(idx) -> idx] :
        \A i, j \in 1..Cardinality(idx) : i # j => o[i] # o[j]}

\* Apparent zenith angles drawn for simulate_eai (degrees).
ZenValsP == {Int2F(0), Num(448, 5), Int2F(120)}

\* What the file on disk can be: absent, not parseable as CSV, lacking the
\* dateandtime column, holding unparseable dates, or well formed.
FileKinds == {"missing", "malformed", "no_dateandtime", "bad_dates", "ok"}

NoFrame == [ghi |-> EmptySeries, eai |-> EmptySeries]

InitPOA ==
    /\ pcP = "open"
    /\ \E k \in FileKinds :
          IF k # "ok"
          THEN file = [kind |-> k, rows |-> <<>>]
          ELSE \E idx \in (SUBSET Stamps) \ {{}} :
                  \E o \in RowOrders(idx) : \E r \in [idx -> GhiVals] :
                      file = [kind |-> k,
                              rows |-> [i \in 1..Cardinality(idx) |-> <<o[i], r[o[i]]>>]]
    /\ fid = "none"
    /\ irr = <<>>
    /\ zenP = EmptySeries
    /\ eai_global = EmptySeries
    /\ eai = EmptySeries
    /\ irr_ = NoFrame
    /\ ktP = EmptySeries
    /\ kt_d = EmptySeries

\* ---- load_testbed_data
\* Line 20, entering the with statement: open(filename).
LOpen ==
    /\ pcP = "open"
    /\ IF file.kind = "missing"
       THEN /\ pcP' = "raised"      \* FileNotFoundError: nothing was opened
            /\ fid' = fid
       ELSE /\ pcP' = "read"
            /\ fid' = "open"
    /\ UNCHANGED <<file, irr, zenP, eai_global, eai, irr_, ktP, kt_d, notP>>

\* Mutant of WithExit: the handle is left as it is.
WithExitLeak(h) == h

\* Line 20, leaving the with block: fid.__exit__ closes the handle, on a
\* normal exit and when the body raised.
WithExit(h) == "closed"

\* Line 22, pd.read_csv(fid, parse_dates=["dateandtime"]): raises on
\* malformed content (ParserError) and on a missing dateandtime column
\* (ValueError).
ReadRaises(fl) == fl.kind \in {"malformed", "no_dateandtime"}

\* Lines 20-22: the body of the with block and its exit.
LRead ==
    /\ pcP = "read"
    /\ fid' = WithExit(fid)
    /\ IF ReadRaises(file)
       THEN /\ pcP' = "raised"
            /\ irr' = irr
       ELSE /\ pcP' = "rename"
            /\ irr' = file.rows
    /\ UNCHANGED <<file, zenP, eai_global, eai, irr_, ktP, kt_d, notP>>

\* Lines 24-25: data.rename(columns=col_mapper, inplace=True)
LRename ==
    /\ pcP = "rename"
    /\ pcP' = "set_index"
    /\ UNCHANGED <<file, fid, irr, zenP, eai_global, eai, irr_, ktP, kt_d, notP>>

\* Line 27: data.set_index("timestamp", inplace=True)
LSetIndex ==
    /\ pcP = "set_index"
    /\ pcP' = "tz_localize"
    /\ UNCHANGED <<file, fid, irr, zenP, eai_global, eai, irr_, ktP, kt_d, notP>>

\* Lines 29-30: data.tz_localize(tz="UTC") raises TypeError when the index
\* is not a DatetimeIndex (the dates did not parse); otherwise return.
LTzLocalize ==
    /\ pcP = "tz_localize"
    /\ pcP' = IF file.kind = "bad_dates" THEN "raised" ELSE "simulate"
    /\ UNCHANGED <<file, fid, irr, zenP, eai_global, eai, irr_, ktP, kt_d, notP>>

\* ---- simulate_eai
\* Line 35: pd.date_range(start, end, freq="1min"), one label per minute
\* (two half-minutes) from the first timestamp of irr up to the last.
DateRange(start, end) == {t \in start..end : (t - start) % 2 = 0}

\* Line 43: eai = eai_global * np.cos(np.radians(solpos["apparent_zenith"]))
ProjectEai(g, zen) == [t \in DOMAIN zen |-> FMul(g[t], CosDeg(zen[t]))]

\* Line 95: start = irr.index[0], the label of the first row.
FirstLabel(rows) == rows[1][1]

\* Line 96: end = irr.index[-1], the label of the last row.
LastLabel(rows) == rows[Len(rows)][1]

\* Lines 95-98 and 35-43.  A first row later than the last row gives an
\* empty date range, and so empty solpos and eai.
SSolpos ==
    /\ pcP = "simulate"
    /\ LET times == DateRange(FirstLabel(irr), LastLabel(irr))
       IN  \E z \in [times -> ZenValsP] :
              /\ zenP' = z
              /\ eai_global' = [t \in times |-> Int2F(ExtraRadiation)]
              /\ eai' = ProjectEai([t \in times |-> Int2F(ExtraRadiation)], z)
    /\ pcP' = "clamp_eai"
    /\ UNCHANGED <<file, fid, irr, irr_, ktP, kt_d, notP>>

\* Line 44: eai[eai < 0] = 0
SClamp ==
    /\ pcP = "clamp_eai"
    /\ eai' = ClampNegative(eai)
    /\ pcP' = "merge"
    /\ UNCHANGED <<file, fid, irr, zenP, eai_global, irr_, ktP, kt_d, notP>>

\* ---- main
\* Line 100: irr.merge(solpos, ...).merge(eai, left_index=True,
\* right_index=True): an inner join, only labels in both indexes are kept.
\* The columns of the result are kept as series on the common labels.
Merge(rows, b) ==
    LET common == {rows[i][1] : i \in 1..Len(rows)} \cap (DOMAIN b)
    IN  [ghi |-> [t \in common |->
                    rows[CHOOSE i \in 1..Len(rows) : rows[i][1] = t][2]],
         eai |-> [t \in common |-> b[t]]]

MMerge ==
    /\ pcP = "merge"
    /\ irr_' = Merge(irr, eai)
    /\ pcP' = "divide"
    /\ UNCHANGED <<file, fid, irr, zenP, eai_global, eai, ktP, kt_d, notP>>

\* Line 102: kt = irr_["ghi"] / irr_["eai"]
MDivide ==
    /\ pcP = "divide"
    /\ ktP' = SeriesDiv(irr_.ghi, irr_.eai)
    /\ pcP' = "mask_inf"
    /\ UNCHANGED <<file, fid, irr, zenP, eai_global, eai, irr_, kt_d, notP>>

\* Line 103: kt[kt == np.inf] = np.nan
MaskInf(s) == MaskAssign(s, {t \in DOMAIN s : FEq(s[t], PInf)}, NaN)

MMaskInf ==
    /\ pcP = "mask_inf"
    /\ ktP' = MaskInf(ktP)
    /\ pcP' = "mask_floor"
    /\ UNCHANGED <<file, fid, irr, zenP, eai_global, eai, irr_, kt_d, notP>>

\* The floor of line 105, W/m^2.
EaiFloor == 10

\* Line 105: kt[irr_["eai"] < 10] = np.nan
MaskFloor(s, ref) ==
    MaskAssign(s, {t \in DOMAIN ref : FLt(ref[t], Int2F(EaiFloor))}, NaN)

MMaskFloor ==
    /\ pcP = "mask_floor"
    /\ ktP' = MaskFloor(ktP, irr_.eai)
    /\ pcP' = "resample"
    /\ UNCHANGED <<file, fid, irr, zenP, eai_global, eai, irr_, kt_d, notP>>

\* Line 116: kt_d = kt.resample("d", label="left").mean()
MResample ==
    /\ pcP = "resample"
    /\ kt_d' = Resample(ktP, StampsPerDay)
    /\ pcP' = "done"
    /\ UNCHANGED <<file, fid, irr, zenP, eai_global, eai, irr_, ktP, notP>>

IdlePOA ==
    /\ pcP = "idle"
    /\ file = [kind |-> "missing", rows |-> <<>>]
    /\ fid = "none"
    /\ irr = <<>>
    /\ zenP = EmptySeries
    /\ eai_global = EmptySeries
    /\ eai = EmptySeries
    /\ irr_ = NoFrame
    /\ ktP = EmptySeries
    /\ kt_d = EmptySeries

\* ================================================ interpolate_wl_spectrum
\* Wavelengths the input curve may hold: 1..MaxWl-1, so that the requested
\* range, drawn from 0..MaxWl, can reach outside the curve on both sides.
CurveWl == 1..(MaxWl - 1)
RequestWl == 0..MaxWl
PowerVals == {Int2F(1), Int2F(2)}

RECURSIVE SortedRows(_, _)
\* The rows of a curve given as a function wavelength -> power, in
\* increasing wavelength.
SortedRows(S, p) ==
    IF S = {} THEN <<>>
    ELSE LET w == SetMin(S) IN <<(<<Int2F(w), p[w]>>)>> \o SortedRows(S \ {w}, p)

NoArray == <<>>

InitSpectrum ==
    /\ pcS = "split"
    /\ start_wl \in RequestWl
    /\ end_wl \in RequestWl
    /\ step_wl \in {1, 2, end_wl - start_wl}
    /\ \E W \in SUBSET CurveWl : \E p \in [W -> PowerVals] :
          input_spectrum = SortedRows(W, p)
    /\ x = NoArray
    /\ y = NoArray
    /\ int_x = NoArray
    /\ f = "none"
    /\ int_y = NoArray
    /\ df = "none"

\* Lines 159-165: the two columns as 1-D arrays.
Column(rows, c) == [i \in 1..Len(rows) |-> rows[i][c]]

ISplit ==
    /\ pcS = "split"
    /\ x' = Column(input_spectrum, 1)
    /\ y' = Column(input_spectrum, 2)
    /\ pcS' = "linspace"
    /\ UNCHANGED <<start_wl, end_wl, step_wl, input_spectrum, int_x, f, int_y, df, notS>>

\* Mutant of NumSamples: the end point is not counted.
NumSamplesOffByOne(s, e) == e - s

\* The sample count of line 166.
NumSamples(s, e) == e - s + 1

\* np.linspace(start, stop, num): num evenly spaced samples over
\* [start, stop], the step being (stop - start) / (num - 1); a single
\* sample is start, and no sample is the empty array.
Linspace(start, stop, num) ==
    [i \in 1..num |->
        IF num = 1 THEN Int2F(start)
        ELSE Num(start * (num - 1) + (i - 1) * (stop - start), num - 1)]

\* Line 166: int_x = np.linspace(start_wl, end_wl, (end_wl-start_wl+1));
\* np.linspace raises ValueError for a negative number of samples.
ILinspace ==
    /\ pcS = "linspace"
    /\ IF NumSamples(start_wl, end_wl) < 0
       THEN /\ pcS' = "raised"
            /\ int_x' = int_x
       ELSE /\ pcS' = "fit"
            /\ int_x' = Linspace(start_wl, end_wl, NumSamples(start_wl, end_wl))
    /\ UNCHANGED <<start_wl, end_wl, step_wl, input_spectrum, x, y, f, int_y, df, notS>>

\* Samples a cubic fit needs: interp1d(kind='cubic') raises ValueError for
\* fewer than 4 points.
MinCubicPoints == 4

\* Line 167: f = interp1d(x, y, kind='cubic')
IFit ==
    /\ pcS = "fit"
    /\ IF Len(x) < MinCubicPoints
       THEN /\ pcS' = "raised"
            /\ f' = f
       ELSE /\ pcS' = "eval"
            /\ f' = "cubic"
    /\ UNCHANGED <<start_wl, end_wl, step_wl, input_spectrum, x, y, int_x, int_y, df, notS>>

\* Mutant of OutOfBounds: bounds_error=False, nothing is out of bounds.
OutOfBoundsIgnored(xs, xnew) == FALSE

\* interp1d's default bounds_error: evaluating f at a point below x[0] or
\* above x[-1] raises ValueError.
OutOfBounds(xs, xnew) ==
    \E i \in 1..Len(xnew) : FLt(xnew[i], xs[1]) \/ FGt(xnew[i], xs[Len(xs)])

\* A value of the spline between two knots: finite, not computed here.
Interpolated == [k |-> "spline", n |-> 0, d |-> 1]

\* f(x_new) inside the domain: the curve's own power at a knot (an
\* interpolant passes through its samples), a spline value elsewhere.
Evaluate(xs, ys, xnew) ==
    [i \in 1..Len(xnew) |->
        IF \E j \in 1..Len(xs) : xs[j] = xnew[i]
        THEN ys[CHOOSE j \in 1..Len(xs) : xs[j] = xnew[i]]
        ELSE Interpolated]

\* Line 168: int_y = f(int_x)
IEval ==
    /\ pcS = "eval"
    /\ IF OutOfBounds(x, int_x)
       THEN /\ pcS' = "raised"
            /\ int_y' = int_y
       ELSE /\ pcS' = "stack"
            /\ int_y' = Evaluate(x, y, int_x)
    /\ UNCHANGED <<start_wl, end_wl, step_wl, input_spectrum, x, y, int_x, f, df, notS>>

\* Lines 169-170: df = pd.DataFrame(np.stack((int_x, int_y), axis=-1))
IReturn ==
    /\ pcS = "stack"
    /\ df' = [i \in 1..Len(int_x) |-> <<int_x[i], int_y[i]>>]
    /\ pcS' = "returned"
    /\ UNCHANGED <<start_wl, end_wl, step_wl, input_spectrum, x, y, int_x, f, int_y, notS>>

IdleSpectrum ==
    /\ pcS = "idle"
    /\ start_wl = 0
    /\ end_wl = 0
    /\ step_wl = 0
    /\ input_spectrum = <<>>
    /\ x = NoArray
    /\ y = NoArray
    /\ int_x = NoArray
    /\ f = "none"
    /\ int_y = NoArray
    /\ df = "none"

\* ================================================ resampling once and twice
\* s.resample(<w>, label="left").mean() as used at Calculate_KT line 44 and
\* POA_analysis lines 114-117, applied to one series at the intermediate
\* cadence FineBin and then at the final cadence FineBin * Factor, and
\* directly at the final cadence.
SeriesTimes == 0..(SeriesLen - 1)
SeriesVals == {NaN, Zero, Int2F(3), PInf, NInf}
CoarseBin == FineBin * Factor

InitResample ==
    /\ pcR = "first"
    /\ \E idx \in SUBSET SeriesTimes : series \in [idx -> SeriesVals]
    /\ coarse = EmptySeries
    /\ twice = EmptySeries
    /\ direct = EmptySeries

RFirst ==
    /\ pcR = "first"
    /\ coarse' = Resample(series, FineBin)
    /\ pcR' = "second"
    /\ UNCHANGED <<series, twice, direct, notR>>

RSecond ==
    /\ pcR = "second"
    /\ twice' = Resample(coarse, CoarseBin)
    /\ pcR' = "direct"
    /\ UNCHANGED <<series, coarse, direct, notR>>

RDirect ==
    /\ pcR = "direct"
    /\ direct' = Resample(series, CoarseBin)
    /\ pcR' = "done"
    /\ UNCHANGED <<series, coarse, twice, notR>>

IdleResample ==
    /\ pcR = "idle"
    /\ series = EmptySeries
    /\ coarse = EmptySeries
    /\ twice = EmptySeries
    /\ direct = EmptySeries

\* ========================================================= specifications
\* One run of one script: Calculate_KT or POA_analysis.
Init ==
    \/ InitKT /\ IdlePOA /\ IdleSpectrum /\ IdleResample
    \/ IdleKT /\ InitPOA /\ IdleSpectrum /\ IdleResample
Next ==
    \/ KProject \/ KClamp \/ KResample \/ KScale \/ KDivide \/ KFilter
    \/ LOpen \/ LRead \/ LRename \/ LSetIndex \/ LTzLocalize
    \/ SSolpos \/ SClamp
    \/ MMerge \/ MDivide \/ MMaskInf \/ MMaskFloor \/ MResample
Spec == Init /\ [][Next]_vars

\* One call of interpolate_wl_spectrum.
InitS == IdleKT /\ IdlePOA /\ InitSpectrum /\ IdleResample
NextS == ISplit \/ ILinspace \/ IFit \/ IEval \/ IReturn
SpecSpectrum == InitS /\ [][NextS]_vars

\* Mean resampling of one series, in two stages and directly.
InitR == IdleKT /\ IdlePOA /\ IdleSpectrum /\ InitResample
NextR == RFirst \/ RSecond \/ RDirect
SpecResample == InitR /\ [][NextR]_vars

\* ================================================================ claims
AfterClampK == {"resample", "scale", "divide", "filter", "done"}
AfterResampleK == {"scale", "divide", "filter", "done"}
AfterClampP == {"merge", "divide", "mask_inf", "mask_floor", "resample", "done"}
AfterMasksP == {"resample", "done"}

\* C1: in Calculate_KT.main, at every hourly timestamp where etr_h_hor is
\* zero the final kt is missing (NaN), whatever global_h is there.
C1_ZeroReferenceGivesMissing ==
    pcK = "done" =>
        \A t \in DOMAIN etr_h_hor : etr_h_hor[t] = Zero => IsNaN(kt[t])

\* C2: in POA_analysis.main, after the two masking steps kt is missing
\* wherever eai is below the 10 W/m^2 floor, and kt holds no infinity,
\* neither +inf nor -inf.
C2_FloorMaskedAndNoInfinity ==
    pcP \in AfterMasksP =>
        \A t \in DOMAIN ktP :
            /\ FLt(irr_.eai[t], Int2F(10)) => IsNaN(ktP[t])
            /\ ~IsInf(ktP[t])

\* C3: the plausibility filter of Calculate_KT.main replaces every kt
\* strictly above 1.3 by missing and leaves every other value unchanged.
C3_CeilingMasksNotClips ==
    [][pcK = "filter" =>
          /\ DOMAIN kt' = DOMAIN kt
          /\ \A t \in DOMAIN kt :
                IF FGt(kt[t], Num(13, 10)) THEN IsNaN(kt'[t]) ELSE kt'[t] = kt[t]]_vars

\* C3 witness: the filter has run on a ratio above 1.3, now missing, and
\* on a ratio equal to 1.3 and a negative ratio, both kept.
C3_Witness ==
    /\ pcK = "done"
    /\ \E t \in DOMAIN kt :
          /\ FGt(FDiv(At(global_h, t), At(etr_h_hor, t)), Num(13, 10))
          /\ IsNaN(kt[t])
    /\ \E t \in DOMAIN kt : kt[t] = Num(13, 10)

\* The clamp step of either script: values below zero become exactly zero,
\* every other value is unchanged.
C5_ClampStep ==
    /\ pcK = "clamp" =>
          /\ DOMAIN etr_hor' = DOMAIN etr_hor
          /\ \A t \in DOMAIN etr_hor :
                etr_hor'[t] = IF FLt(etr_hor[t], Zero) THEN Zero ELSE etr_hor[t]
    /\ pcP = "clamp_eai" =>
          /\ DOMAIN eai' = DOMAIN eai
          /\ \A t \in DOMAIN eai :
                eai'[t] = IF FLt(eai[t], Zero) THEN Zero ELSE eai[t]

\* After the clamp every fine-grained value, and after the aggregation every
\* hourly mean, is >= 0.
C5_NonNegative ==
    /\ pcK \in AfterClampK => \A t \in DOMAIN etr_hor : FGe(etr_hor[t], Zero)
    /\ pcK \in AfterResampleK =>
          \A l \in DOMAIN etr_h_hor : FGe(etr_h_hor[l], Zero)
    /\ pcP \in AfterClampP => \A t \in DOMAIN eai : FGe(eai[t], Zero)

\* C5: the clamp step sets every value below zero of the fine-grained
\* horizontal reference (etr_hor, eai) to exactly zero and leaves every
\* other value unchanged; afterwards every value, and every hourly mean
\* etr_h_hor, is >= 0.
C5_ClampedReferenceNonNegative == [][C5_ClampStep]_vars /\ []C5_NonNegative

\* C5 witness: the clamp has run on a series with a sun-below-horizon
\* sample (now zero) and a positive sample, and the hourly means exist.
C5_Witness ==
    /\ pcK = "done"
    /\ \E t \in DOMAIN etr_hor : FLt(CosDeg(zenK[t]), Zero) /\ etr_hor[t] = Zero
    /\ \E t \in DOMAIN etr_hor : FGt(etr_hor[t], Zero)
    /\ \E l \in DOMAIN etr_h_hor : etr_h_hor[l] = Zero

\* C8: in load_testbed_data the file handle is open only while the read
\* runs, and it is closed on every path out of the with block, whether
\* the read returned or raised.
C8_HandleHeldOnlyDuringRead ==
    /\ fid = "open" => pcP = "read"
    /\ (pcP \notin {"idle", "open", "read"} /\ file.kind # "missing") => fid = "closed"

\* C8 witness: the read raised on malformed content and the handle is closed.
C8_Witness ==
    /\ pcP = "raised"
    /\ file.kind = "malformed"
    /\ fid = "closed"

\* C10: in both derivations, at every output timestamp where the measured
\* value or the reference is missing or absent, kt is missing; the only
\* step that raises is the file load, before any arithmetic.
C10_MissingInputGivesMissing ==
    /\ pcK \in {"filter", "done"} =>
          /\ DOMAIN kt = (DOMAIN global_h) \cup (DOMAIN etr_h_hor)
          /\ \A t \in DOMAIN kt :
                (\/ t \notin DOMAIN global_h
                 \/ t \notin DOMAIN etr_h_hor
                 \/ IsNaN(global_h[t])
                 \/ IsNaN(etr_h_hor[t])) => IsNaN(kt[t])
    /\ pcP \in {"mask_inf", "mask_floor", "resample", "done"} =>
          /\ DOMAIN ktP = DOMAIN irr_.ghi
          /\ \A t \in DOMAIN ktP :
                (IsNaN(irr_.ghi[t]) \/ IsNaN(irr_.eai[t])) => IsNaN(ktP[t])
    /\ pcP = "raised" => (zenP = EmptySeries /\ ktP = EmptySeries)

\* C10 witness: Calculate_KT has finished on a file with a missing cell,
\* with an hour absent from the file and an hour absent from the reference.
C10_Witness ==
    /\ pcK = "done"
    /\ \E t \in DOMAIN kt : t \notin DOMAIN global_h
    /\ \E t \in DOMAIN kt : t \notin DOMAIN etr_h_hor
    /\ \E t \in DOMAIN global_h : IsNaN(global_h[t]) /\ t \in DOMAIN etr_h_hor

\* ---- interpolate_wl_spectrum
TerminalS == pcS \in {"returned", "raised"}

\* The requested range lies inside the wavelength domain of the curve.
InsideDomain ==
    /\ Len(input_spectrum) > 0
    /\ FGe(Int2F(start_wl), input_spectrum[1][1])
    /\ FGe(input_spectrum[Len(input_spectrum)][1], Int2F(end_wl))

\* The requested range reaches outside the wavelength domain of the curve.
OutsideDomain ==
    /\ Len(input_spectrum) > 0
    /\ \/ FLt(Int2F(start_wl), input_spectrum[1][1])
       \/ FGt(Int2F(end_wl), input_spectrum[Len(input_spectrum)][1])

\* A curve of end_wl - start_wl + 1 rows at start_wl, start_wl + 1, ...,
\* end_wl has been returned.
UnitGridReturned ==
    /\ pcS = "returned"
    /\ Len(df) = end_wl - start_wl + 1
    /\ \A i \in 1..Len(df) : df[i][1] = Int2F(start_wl + i - 1)

\* C4 as stated: for start_wl <= end_wl inside the curve's domain the
\* function returns end_wl - start_wl + 1 rows at start_wl..end_wl.
C4_InsideDomainGivesUnitGrid ==
    (TerminalS /\ start_wl <= end_wl /\ InsideDomain) => UnitGridReturned

\* C4 amended: the same, for curves of at least 4 samples.
C4_FourSamplesInsideDomainGivesUnitGrid ==
    (TerminalS /\ start_wl <= end_wl /\ InsideDomain /\ Len(input_spectrum) >= 4)
        => UnitGridReturned

\* C4 witness: a range of several wavelengths inside a curve of at least 4
\* samples has been interpolated.
C4_Witness ==
    /\ pcS = "returned"
    /\ start_wl < end_wl
    /\ InsideDomain
    /\ Len(df) >= 3

\* C7 as stated: every request reaching outside the curve's wavelength
\* domain (start_wl below the smallest wavelength or end_wl above the
\* largest) ends in a raised error and returns no curve.
C7_OutsideDomainRaises ==
    (TerminalS /\ OutsideDomain) => (pcS = "raised" /\ df = "none")

\* C7 amended: the same, except for the request end_wl = start_wl - 1,
\* which asks for no sample.
C7_OutsideDomainRaisesUnlessNoSample ==
    (TerminalS /\ OutsideDomain /\ end_wl # start_wl - 1)
        => (pcS = "raised" /\ df = "none")

\* C7 witness: the fit succeeded and the evaluation raised on a request
\* that starts below the curve's first wavelength.
C7_Witness ==
    /\ pcS = "raised"
    /\ f = "cubic"
    /\ start_wl <= end_wl
    /\ FLt(Int2F(start_wl), input_spectrum[1][1])
    /\ FGe(input_spectrum[Len(input_spectrum)][1], Int2F(end_wl))

\* C9: the wavelength axis of the returned curve takes steps of size
\* step_wl.
C9_AxisStepIsStepWl ==
    pcS = "returned" =>
        \A i \in 1..(Len(df) - 1) : df[i + 1][1] = FAdd(df[i][1], Int2F(step_wl))

\* ---- resampling
\* Non-missing samples of the series in the intermediate bin labelled l.
Weight(l) ==
    Cardinality({t \in DOMAIN series :
                    t \div FineBin = l \div FineBin /\ ~IsNaN(series[t])})

\* Within every final bin, the intermediate bins that hold a non-missing
\* sample all hold the same number of them.
EqualWeights ==
    \A l1, l2 \in DOMAIN coarse :
        (l1 \div CoarseBin = l2 \div CoarseBin /\ Weight(l1) > 0 /\ Weight(l2) > 0)
            => Weight(l1) = Weight(l2)

\* No intermediate bin holds both +inf and -inf (their sum, and so the
\* bin's mean, would be NaN).
NoOpposedInfinities ==
    \A l \in DOMAIN coarse :
        ~(\E t1, t2 \in DOMAIN series :
             /\ t1 \div FineBin = l \div FineBin
             /\ t2 \div FineBin = l \div FineBin
             /\ series[t1] = PInf
             /\ series[t2] = NInf)

\* C6 as stated: for every series, resampling by mean to the intermediate
\* cadence and then to the final cadence equals resampling directly.
C6_TwoStageEqualsDirect == pcR = "done" => twice = direct

\* C6 amended: the two agree whenever, within each final bin, all
\* intermediate bins holding a non-missing sample hold equally many, and
\* no intermediate bin holds both +inf and -inf.
C6_TwoStageEqualsDirectEqualWeights ==
    (pcR = "done" /\ EqualWeights /\ NoOpposedInfinities) => twice = direct

\* C6 witness: equal weights, with two intermediate bins of one final bin
\* holding different means.
C6_Witness ==
    /\ pcR = "done"
    /\ EqualWeights
    /\ \E l1, l2 \in DOMAIN coarse :
          /\ l1 \div CoarseBin = l2 \div CoarseBin
          /\ IsNum(coarse[l1]) /\ IsNum(coarse[l2])
          /\ coarse[l1] # coarse[l2]
          /\ Weight(l1) = FineBin

====
